---- MODULE Spec2Model ----
(***************************************************************************)
(* Model of the Logger class of src/src/logger.ts (lines 1-266): a         *)
(* browser logging utility that keeps a bounded array of log entries in    *)
(* one localStorage slot.                                                  *)
(*                                                                         *)
(* The storage slot holds TEXT; the logger works on VALUES. JSONparse and  *)
(* JSONstringify convert between the two and are modelled by what          *)
(* JavaScript does: parsing unparsable text throws, parsing "null", a      *)
(* number or "{}" yields a value that is not an array, stringifying a      *)
(* cyclic payload throws and stringifying an Error object yields "{}".     *)
(*                                                                         *)
(* Every storage call (getItem, setItem, removeItem) may throw; which      *)
(* calls throw during one operation is the record f chosen by the          *)
(* environment for that operation.                                         *)
(***************************************************************************)
EXTENDS Integers, Sequences, FiniteSets, TLC

\* maxLogs = 1000 in the source, scaled down.
maxLogs == 2

\* logExpireDays = 30 in the source; one clock tick of the model is 30 days.
logExpireDays == 1

LogLevel == {"DEBUG", "INFO", "WARN", "ERROR"}

\* Payloads a caller passes as `data`: a serialisable value, or a structure
\* with a cycle (JSON.stringify throws on it).
Data == {"plain", "cyclic"}

\* Reasons carried by an unhandledrejection event.
Reasons == {"plain", "cyclic"}

\* Which storage calls throw during one operation.
Outcomes == [get : BOOLEAN, set : BOOLEAN, remove : BOOLEAN]
NoFail == [get |-> FALSE, set |-> FALSE, remove |-> FALSE]

VARIABLES
    phase,          \* "new": no page loaded yet; "ready": the module is loaded;
                    \* "failed": the constructor threw, no logger exists
    host,           \* window and document exist
    slot,           \* text stored under storageKey
    enabled,        \* this.enabled
    levelThreshold, \* this.levelThreshold
    observers,      \* the error / unhandledrejection listeners are registered
    now,            \* Date.now(), in ticks
    op,             \* the last operation: [name, level]
    raised,         \* the last operation threw to its caller
    result,         \* what the last operation returned
    access,         \* storage calls the last operation attempted
    threw,          \* storage calls of the last operation that threw
    emitted,        \* console lines the last operation wrote
    track,          \* which history variables this behaviour records:
                    \* "none", "history" (expected, nAccepted) or "snap"
    expected,       \* history: the entries of the calls that passed the
                    \* level filter on an enabled store since the page load,
                    \* trimmed to the last maxLogs
    nAccepted,      \* history: the number of those calls, counted up to
                    \* maxLogs + 1
    snap,           \* history: the slot at the last disable(), until the
                    \* enabled store or other code writes the slot
    other,          \* text stored under a key of other code
    keys,           \* keys the storage calls of the last operation named
    pending         \* the log calls that have read the slot and not yet
                    \* written it, the innermost last

vars == <<phase, host, slot, enabled, levelThreshold, observers, now, op,
          raised, result, access, threw, emitted, track, expected, nAccepted,
          snap, other, keys, pending>>

----------------------------------------------------------------------------
\* Texts and values

Text(kind, items, indent) == [kind |-> kind, items |-> items, indent |-> indent]
Absent == Text("absent", <<>>, 0)
EmptyString == Text("empty", <<>>, 0)
Garbage == Text("garbage", <<>>, 0)

Value(type, items) == [type |-> type, items |-> items]
EmptyArray == Value("array", <<>>)

NonArrayKinds == {"object", "number", "null"}

\* JSON.parse succeeds on the text
Parsable(text) == text.kind \in {"array"} \cup NonArrayKinds

\* JSON.parse(raw), for parsable text
JSONparse(text) == Value(text.kind, text.items)

\* Payloads createLogEntry tells apart: Error objects (with a stack, with
\* the stack deleted, with an empty stack), other objects with a stack
\* field (filled or empty), and values with no stack field
ErrorData == {"error", "error_nostack", "error_emptystack"}
instanceofError(d) == d \in ErrorData

\* typeof data === "object" (true of null)
typeofObject(d) == d \notin {"undefined", "string"}

\* data.stack: "attached" is a trace the payload carries, "" an empty
\* string, "undefined" a missing field
StackField(d) ==
    CASE d \in {"error", "obj_stack"} -> "attached"
      [] d \in {"error_emptystack", "obj_emptystack"} -> ""
      [] OTHER -> "undefined"

\* A string or undefined used as a condition
Truthy(x) == x \notin {"", "undefined"}

\* The JSON form of one entry: an Error payload has no enumerable property
\* and is written as {}.
\* A "hooked" payload has a toJSON method or a getter that runs code of the
\* page while it is serialised; what it returns is written.
EntryToJSON(e) ==
    [e EXCEPT !.data = IF instanceofError(e.data) THEN "emptyobj"
                       ELSE IF e.data = "hooked" THEN "plain"
                       ELSE e.data]

\* JSON.stringify throws on the value
Unserialisable(v) ==
    \E i \in 1..Len(v.items) : v.items[i].data \in {"cyclic", "reason_cyclic"}

\* JSON.stringify(value, null, indent), for a serialisable value; an empty
\* array is "[]" and a non-array is one token, at any indentation.
JSONstringify(v, indent) ==
    Text(v.type, [i \in 1..Len(v.items) |-> EntryToJSON(v.items[i])],
         IF Len(v.items) = 0 THEN 0 ELSE indent)

\* A timestamp is the tick at which toISOString() was taken; NaT stands for a
\* string that new Date() cannot parse, whose getTime() is NaN.
NaT == 0 - 1
NaN == 0 - 1
toISOString(t) == t
DateGetTime(ts) == IF ts = NaT THEN NaN ELSE ts

\* a >= b in JavaScript, where a may be NaN (every comparison with NaN is false)
GreaterEq(a, b) == a # NaN /\ a >= b

----------------------------------------------------------------------------
\* The Logger class

levelOrder(level) ==
    CASE level = "DEBUG" -> 0
      [] level = "INFO" -> 1
      [] level = "WARN" -> 2
      [] level = "ERROR" -> 3
      [] OTHER -> 0

\* Mutant: the comparison the wrong way round
shouldLogReversed(level) == levelOrder(level) <= levelOrder(levelThreshold)

shouldLog(level) == levelOrder(level) >= levelOrder(levelThreshold)

\* The new content of the slot after localStorage.setItem(key, value) in a try
safeLocalStorageSet(s, value, f) == IF f.set THEN s ELSE value

\* localStorage.getItem(key) in a try; null (an absent key) when it throws
safeLocalStorageGet(s, f) == IF f.get THEN Absent ELSE s

storageKey == "RKLINK_FRONTEND_LOGS"

\* A key that other code of the page keeps in the same storage
otherKey == "OTHER_KEY"
ForeignText == Text("foreign", <<>>, 0)

\* Mutant: the writes and removes go to a key that is not the logger's
KeyOfShared(call) == IF call = "get" THEN storageKey ELSE otherKey

\* The key a storage call of the logger names: getItem, setItem and
\* removeItem are all called with this.storageKey
KeyOf(call) == storageKey

KeysOf(calls) == {KeyOf(c) : c \in calls}

\* The text under otherKey after the storage calls of one operation: a
\* removeItem that names the key removes it, a setItem that names it
\* overwrites it with the logger's payload, a call that throws does nothing
OtherAfter(o, calls, f) ==
    IF \E c \in calls : c = "remove" /\ KeyOf(c) = otherKey /\ ~f[c]
    THEN Absent
    ELSE IF \E c \in calls : c = "set" /\ KeyOf(c) = otherKey /\ ~f[c]
    THEN Text("array", <<>>, 0)
    ELSE o

\* new Error().stack, captured inside createLogEntry
FreshStack == "fresh"

createLogEntry(level, message, data) ==
    [timestamp |-> toISOString(now), level |-> level, message |-> message,
     data |-> data,
     stack |-> IF instanceofError(data) THEN StackField(data)
               ELSE IF typeofObject(data) /\ Truthy(StackField(data))
               THEN StackField(data)
               ELSE FreshStack]

\* Mutant: the key is never removed
clearLogsKeeps(en, s, f) ==
    [slot |-> s, access |-> IF en THEN {"remove"} ELSE {}]

\* Mutant: no check of the enabled flag
clearLogsUngated(en, s, f) ==
    [slot |-> IF f.remove THEN s ELSE Absent, access |-> {"remove"}]

\* clearLogs() on a logger whose enabled flag is en, the slot holding s
clearLogs(en, s, f) ==
    IF ~en THEN [slot |-> s, access |-> {}]
    ELSE [slot |-> IF f.remove THEN s ELSE Absent, access |-> {"remove"}]

\* Mutant: reading a collection removes it from the slot
getLogsDrain(en, s, f) ==
    IF ~en THEN [ret |-> EmptyArray, slot |-> s, access |-> {}]
    ELSE LET raw == safeLocalStorageGet(s, f) IN
         IF raw.kind \in {"absent", "empty"}
         THEN [ret |-> EmptyArray, slot |-> s, access |-> {"get"}]
         ELSE IF ~Parsable(raw)
         THEN LET c == clearLogs(en, s, f) IN
              [ret |-> EmptyArray, slot |-> c.slot,
               access |-> {"get"} \cup c.access]
         ELSE [ret |-> JSONparse(raw), slot |-> Absent, access |-> {"get"}]

\* Mutant: entries below the threshold are not returned
getLogsFiltered(en, s, f) ==
    IF ~en THEN [ret |-> EmptyArray, slot |-> s, access |-> {}]
    ELSE LET raw == safeLocalStorageGet(s, f) IN
         IF raw.kind \in {"absent", "empty"}
         THEN [ret |-> EmptyArray, slot |-> s, access |-> {"get"}]
         ELSE IF ~Parsable(raw)
         THEN LET c == clearLogs(en, s, f) IN
              [ret |-> EmptyArray, slot |-> c.slot,
               access |-> {"get"} \cup c.access]
         ELSE [ret |-> Value(raw.kind,
                             SelectSeq(raw.items,
                                       LAMBDA e : shouldLog(e.level))),
               slot |-> s, access |-> {"get"}]

\* Mutant: a payload that does not parse is not cleared
getLogsNoClear(en, s, f) ==
    IF ~en THEN [ret |-> EmptyArray, slot |-> s, access |-> {}]
    ELSE LET raw == safeLocalStorageGet(s, f) IN
         IF raw.kind \in {"absent", "empty"} \/ ~Parsable(raw)
         THEN [ret |-> EmptyArray, slot |-> s, access |-> {"get"}]
         ELSE [ret |-> JSONparse(raw), slot |-> s, access |-> {"get"}]

getLogs(en, s, f) ==
    IF ~en THEN [ret |-> EmptyArray, slot |-> s, access |-> {}]
    ELSE LET raw == safeLocalStorageGet(s, f) IN
         IF raw.kind \in {"absent", "empty"}
         THEN [ret |-> EmptyArray, slot |-> s, access |-> {"get"}]
         ELSE IF ~Parsable(raw)
         THEN LET c == clearLogs(en, s, f) IN
              [ret |-> EmptyArray, slot |-> c.slot,
               access |-> {"get"} \cup c.access]
         ELSE [ret |-> JSONparse(raw), slot |-> s, access |-> {"get"}]

\* Mutant: the new entry goes to the front
pushUnshift(logs, entry) ==
    LET pushed == <<entry>> \o logs IN
    IF Len(pushed) > maxLogs THEN SubSeq(pushed, 1, maxLogs) ELSE pushed

\* Mutant: the oldest entry is never dropped
pushNoShift(logs, entry) == Append(logs, entry)

\* logs.push(entry); if (logs.length > maxLogs) logs.shift()
pushShift(logs, entry) ==
    LET pushed == Append(logs, entry) IN
    IF Len(pushed) > maxLogs THEN Tail(pushed) ELSE pushed

saveLog(en, s, entry, f) ==
    IF ~en THEN [slot |-> s, access |-> {}, raised |-> FALSE]
    ELSE IF ~shouldLog(entry.level)
    THEN [slot |-> s, access |-> {}, raised |-> FALSE]
    ELSE LET g == getLogs(en, s, f) IN
         IF g.ret.type # "array"
         THEN \* logs.push is not a function: TypeError
              [slot |-> g.slot, access |-> g.access, raised |-> TRUE]
         ELSE LET logs == Value("array", pushShift(g.ret.items, entry)) IN
              IF Unserialisable(logs)
              THEN \* JSON.stringify(logs) throws before safeLocalStorageSet
                   \* is entered
                   [slot |-> g.slot, access |-> g.access, raised |-> TRUE]
              ELSE [slot |-> safeLocalStorageSet(g.slot,
                                                 JSONstringify(logs, 0), f),
                    access |-> g.access \cup {"set"}, raised |-> FALSE]

\* saveLog in two steps. The first is lines 115-123: the guards, the read
\* of the slot, the push and the shift; `reached` says that the call goes
\* on to line 125.
saveLogRead(en, s, entry, f) ==
    IF ~en \/ ~shouldLog(entry.level)
    THEN [reached |-> FALSE, slot |-> s, access |-> {}, raised |-> FALSE,
          snapshot |-> <<>>, logs |-> <<>>]
    ELSE LET g == getLogs(en, s, f) IN
         IF g.ret.type # "array"
         THEN [reached |-> FALSE, slot |-> g.slot, access |-> g.access,
               raised |-> TRUE, snapshot |-> <<>>, logs |-> <<>>]
         ELSE [reached |-> TRUE, slot |-> g.slot, access |-> g.access,
               raised |-> FALSE, snapshot |-> g.ret.items,
               logs |-> pushShift(g.ret.items, entry)]

\* Mutant: the write appends the new entry to what the slot holds now
saveLogWriteMerge(s, logs, f) ==
    [slot |-> safeLocalStorageSet(s,
                  JSONstringify(Value("array",
                      Append(IF s.kind = "array" THEN s.items ELSE <<>>,
                             logs[Len(logs)])), 0), f),
     access |-> {"set"}, raised |-> FALSE]

\* The second step is line 125: JSON.stringify(logs), then setItem in a try
saveLogWrite(s, logs, f) ==
    IF Unserialisable(Value("array", logs))
    THEN [slot |-> s, access |-> {}, raised |-> TRUE]
    ELSE [slot |-> safeLocalStorageSet(s,
                       JSONstringify(Value("array", logs), 0), f),
          access |-> {"set"}, raised |-> FALSE]

\* Mutant: the sweep writes the slot whether or not it dropped an entry
cleanExpiredLogsAlwaysWrites(en, s, f) ==
    LET expireTime == now - logExpireDays
        g == getLogs(en, s, f)
    IN  IF g.ret.type # "array"
        THEN [slot |-> g.slot, access |-> g.access, raised |-> TRUE]
        ELSE LET keep(log) == GreaterEq(DateGetTime(log.timestamp), expireTime)
                 filtered == SelectSeq(g.ret.items, keep)
             IN  [slot |-> safeLocalStorageSet(g.slot,
                               JSONstringify(Value("array", filtered), 0), f),
                  access |-> g.access \cup {"set"}, raised |-> FALSE]

\* Mutant: the sweep drops nothing
cleanExpiredLogsNoSweep(en, s, f) ==
    LET g == getLogs(en, s, f) IN
    [slot |-> g.slot, access |-> g.access, raised |-> g.ret.type # "array"]

cleanExpiredLogs(en, s, f) ==
    LET expireTime == now - logExpireDays
        g == getLogs(en, s, f)
    IN  IF g.ret.type # "array"
        THEN \* logs.filter is not a function: TypeError
             [slot |-> g.slot, access |-> g.access, raised |-> TRUE]
        ELSE LET keep(log) == GreaterEq(DateGetTime(log.timestamp), expireTime)
                 filtered == SelectSeq(g.ret.items, keep)
             IN  IF Len(filtered) # Len(g.ret.items)
                 THEN [slot |-> safeLocalStorageSet(g.slot,
                                   JSONstringify(Value("array", filtered), 0), f),
                       access |-> g.access \cup {"set"}, raised |-> FALSE]
                 ELSE [slot |-> g.slot, access |-> g.access, raised |-> FALSE]

\* The console lines logToConsole(entry) writes
logToConsole(entry) ==
    IF ~shouldLog(entry.level) THEN <<>>
    ELSE <<[level |-> entry.level, message |-> entry.message]>>

\* Mutant: the export is always the text of the empty array
exportLogsEmpty(en, s, f) ==
    LET g == getLogs(en, s, f) IN
    [ret |-> Text("array", <<>>, 0), slot |-> g.slot, access |-> g.access]

exportLogs(en, s, f) ==
    IF ~en THEN [ret |-> Text("array", <<>>, 0), slot |-> s, access |-> {}]
    ELSE LET g == getLogs(en, s, f) IN
         [ret |-> JSONstringify(g.ret, 2), slot |-> g.slot, access |-> g.access]

\* Mutant: every entry counts for every level
CountLevelAll(items, level) == Len(items)

CountLevel(items, level) ==
    Len(SelectSeq(items, LAMBDA l : l.level = level))

getLogsSummary(en, s, f) ==
    IF ~en
    THEN [ret |-> [total |-> 0, errors |-> 0, warnings |-> 0, info |-> 0,
                   debug |-> 0],
          slot |-> s, access |-> {}, raised |-> FALSE]
    ELSE LET g == getLogs(en, s, f) IN
         IF g.ret.type # "array"
         THEN \* null.length, or logs.filter is not a function: TypeError
              [ret |-> [total |-> 0, errors |-> 0, warnings |-> 0, info |-> 0,
                        debug |-> 0],
               slot |-> g.slot, access |-> g.access, raised |-> TRUE]
         ELSE [ret |-> [total |-> Len(g.ret.items),
                        errors |-> CountLevel(g.ret.items, "ERROR"),
                        warnings |-> CountLevel(g.ret.items, "WARN"),
                        info |-> CountLevel(g.ret.items, "INFO"),
                        debug |-> CountLevel(g.ret.items, "DEBUG")],
               slot |-> g.slot, access |-> g.access, raised |-> FALSE]

downloadLogs(en, s, f) ==
    IF ~en THEN [file |-> <<>>, slot |-> s, access |-> {}, raised |-> FALSE]
    ELSE LET e == exportLogs(en, s, f) IN
         IF ~host
         THEN \* document is not defined: ReferenceError
              [file |-> <<>>, slot |-> e.slot, access |-> e.access,
               raised |-> TRUE]
         ELSE [file |-> <<e.ret>>, slot |-> e.slot, access |-> e.access,
               raised |-> FALSE]

----------------------------------------------------------------------------
\* History variables and bookkeeping

Void == [tag |-> "void"]
NoSnap == [valid |-> FALSE, slot |-> Absent]
NoLevel == "NONE"
Op(name, level) == [name |-> name, level |-> level]

\* What identifies an entry: when it was created, by which method, with
\* which message
Ident(e) == [timestamp |-> e.timestamp, level |-> e.level, message |-> e.message]
Idents(items) == [i \in 1..Len(items) |-> Ident(items[i])]

\* The attempted storage calls that threw
Threw(calls, f) == {c \in calls : f[c]}

LastN(q, n) == IF Len(q) > n THEN SubSeq(q, Len(q) - n + 1, Len(q)) ELSE q

----------------------------------------------------------------------------
\* Operations

\* The body shared by debug, info, warn and error
LogCall(name, level, message, data, f) ==
    LET entry == createLogEntry(level, message, data)
        s == saveLog(enabled, slot, entry, f)
        accepted == track = "history" /\ enabled /\ shouldLog(level)
    IN  /\ phase = "ready"
        /\ slot' = s.slot
        /\ raised' = s.raised
        /\ access' = s.access
        /\ keys' = KeysOf(s.access)
        /\ other' = OtherAfter(other, s.access, f)
        /\ threw' = Threw(s.access, f)
        /\ emitted' = IF s.raised THEN <<>> ELSE logToConsole(entry)
        /\ result' = Void
        /\ op' = Op(name, level)
        /\ expected' = IF accepted
                       THEN LastN(Append(expected, Ident(entry)), maxLogs)
                       ELSE expected
        /\ nAccepted' = IF accepted /\ nAccepted <= maxLogs THEN nAccepted + 1
                        ELSE nAccepted
        /\ snap' = IF enabled THEN NoSnap ELSE snap
        /\ UNCHANGED <<phase, host, enabled, levelThreshold, observers, now,
                       track, pending>>

debug(data, f) == LogCall("debug", "DEBUG", "m", data, f)

info(data, f) == LogCall("info", "INFO", "m", data, f)

warn(data, f) == LogCall("warn", "WARN", "m", data, f)

error(data, f) == LogCall("error", "ERROR", "m", data, f)

\* The listener setupGlobalErrorHandler registers: the payload is an object
\* of strings and numbers taken from the event
ErrorEvent(f) ==
    /\ observers
    /\ LogCall("errorEvent", "ERROR", "Global Error", "event", f)

\* The listener setupUnhandledRejectionHandler registers: the payload wraps
\* the rejection reason
RejectionEvent(reason, f) ==
    /\ observers
    /\ LogCall("rejectionEvent", "ERROR", "Unhandled Promise Rejection",
               IF reason = "cyclic" THEN "reason_cyclic" ELSE "reason_plain", f)

ClearLogs(f) ==
    LET c == clearLogs(enabled, slot, f) IN
    /\ phase = "ready"
    /\ slot' = c.slot
    /\ access' = c.access
    /\ keys' = KeysOf(c.access)
    /\ other' = OtherAfter(other, c.access, f)
    /\ threw' = Threw(c.access, f)
    /\ raised' = FALSE
    /\ emitted' = <<>>
    /\ result' = Void
    /\ op' = Op("clearLogs", NoLevel)
    /\ snap' = IF enabled THEN NoSnap ELSE snap
    /\ UNCHANGED <<phase, host, enabled, levelThreshold, observers, now,
                   track, pending, expected, nAccepted>>

GetLogs(f) ==
    LET g == getLogs(enabled, slot, f) IN
    /\ phase = "ready"
    /\ slot' = g.slot
    /\ access' = g.access
    /\ keys' = KeysOf(g.access)
    /\ other' = OtherAfter(other, g.access, f)
    /\ threw' = Threw(g.access, f)
    /\ raised' = FALSE
    /\ emitted' = <<>>
    /\ result' = [tag |-> "value", val |-> g.ret]
    /\ op' = Op("getLogs", NoLevel)
    /\ UNCHANGED <<phase, host, enabled, levelThreshold, observers, now,
                   track, pending, expected, nAccepted, snap>>

ExportLogs(f) ==
    LET e == exportLogs(enabled, slot, f) IN
    /\ phase = "ready"
    /\ slot' = e.slot
    /\ access' = e.access
    /\ keys' = KeysOf(e.access)
    /\ other' = OtherAfter(other, e.access, f)
    /\ threw' = Threw(e.access, f)
    /\ raised' = FALSE
    /\ emitted' = <<>>
    /\ result' = [tag |-> "text", val |-> e.ret]
    /\ op' = Op("exportLogs", NoLevel)
    /\ UNCHANGED <<phase, host, enabled, levelThreshold, observers, now,
                   track, pending, expected, nAccepted, snap>>

DownloadLogs(f) ==
    LET d == downloadLogs(enabled, slot, f) IN
    /\ phase = "ready"
    /\ slot' = d.slot
    /\ access' = d.access
    /\ keys' = KeysOf(d.access)
    /\ other' = OtherAfter(other, d.access, f)
    /\ threw' = Threw(d.access, f)
    /\ raised' = d.raised
    /\ emitted' = <<>>
    /\ result' = IF d.raised THEN Void ELSE [tag |-> "file", val |-> d.file]
    /\ op' = Op("downloadLogs", NoLevel)
    /\ UNCHANGED <<phase, host, enabled, levelThreshold, observers, now,
                   track, pending, expected, nAccepted, snap>>

GetLogsSummary(f) ==
    LET g == getLogsSummary(enabled, slot, f) IN
    /\ phase = "ready"
    /\ slot' = g.slot
    /\ access' = g.access
    /\ keys' = KeysOf(g.access)
    /\ other' = OtherAfter(other, g.access, f)
    /\ threw' = Threw(g.access, f)
    /\ raised' = g.raised
    /\ emitted' = <<>>
    /\ result' = IF g.raised THEN Void ELSE [tag |-> "summary", val |-> g.ret]
    /\ op' = Op("getLogsSummary", NoLevel)
    /\ UNCHANGED <<phase, host, enabled, levelThreshold, observers, now,
                   track, pending, expected, nAccepted, snap>>

\* An operation that touches only the logger's fields
FieldOp(name) ==
    /\ phase = "ready"
    /\ access' = {}
    /\ keys' = {}
    /\ other' = other
    /\ threw' = {}
    /\ raised' = FALSE
    /\ emitted' = <<>>
    /\ result' = Void
    /\ op' = Op(name, NoLevel)
    /\ UNCHANGED <<phase, host, slot, observers, now, track, pending, expected,
                   nAccepted>>

enable ==
    /\ FieldOp("enable")
    /\ enabled' = TRUE
    /\ UNCHANGED <<levelThreshold, snap>>

disable ==
    /\ FieldOp("disable")
    /\ enabled' = FALSE
    /\ snap' = IF track = "snap" THEN [valid |-> TRUE, slot |-> slot] ELSE NoSnap
    /\ UNCHANGED levelThreshold

setLevelThreshold(level) ==
    /\ FieldOp("setLevelThreshold")
    /\ levelThreshold' = level
    /\ UNCHANGED <<enabled, snap>>

\* One evaluation of createLogEntry, as the first statement of every log
\* method performs it
CreateLogEntry(level, message, data) ==
    /\ phase = "ready"
    /\ op' = Op("createLogEntry", level)
    /\ result' = [tag |-> "entry", val |-> createLogEntry(level, message, data)]
    /\ raised' = FALSE
    /\ access' = {}
    /\ keys' = {}
    /\ threw' = {}
    /\ emitted' = <<>>
    /\ UNCHANGED <<phase, host, slot, enabled, levelThreshold, observers, now,
                   track, pending, expected, nAccepted, snap, other>>

Advisory ==
    [level |-> "WARN",
     message |-> "Logger is designed for browser environments and will be disabled."]

\* A page load: the module is evaluated and `new Logger()` runs, with the
\* field initialisers enabled = true and levelThreshold = DEBUG
Constructor(f) ==
    LET c == cleanExpiredLogs(TRUE, slot, f) IN
    /\ op' = Op("constructor", NoLevel)
    /\ result' = Void
    /\ levelThreshold' = "DEBUG"
    /\ snap' = NoSnap
    /\ nAccepted' = 0
    /\ expected' = <<>>
    /\ IF ~host
       THEN /\ emitted' = <<Advisory>>
            /\ enabled' = FALSE
            /\ observers' = FALSE
            /\ phase' = "ready"
            /\ raised' = FALSE
            /\ access' = {}
            /\ keys' = {}
            /\ other' = other
            /\ threw' = {}
            /\ UNCHANGED slot
       ELSE /\ emitted' = <<>>
            /\ enabled' = TRUE
            /\ slot' = c.slot
            /\ access' = c.access
            /\ keys' = KeysOf(c.access)
            /\ other' = OtherAfter(other, c.access, f)
            /\ threw' = Threw(c.access, f)
            /\ raised' = c.raised
            /\ observers' = ~c.raised
            /\ phase' = IF c.raised THEN "failed" ELSE "ready"
    /\ UNCHANGED <<host, now, track, pending>>

\* Payloads that are not a collection of entries
CorruptSlots == {EmptyString, Garbage} \cup {Text(k, <<>>, 0) : k \in NonArrayKinds}

\* Other code of the page writes a payload that is not a collection into
\* the slot
ManualWrite(text) ==
    /\ phase = "ready"
    /\ slot' = text
    /\ op' = Op("manualWrite", NoLevel)
    /\ result' = Void
    /\ raised' = FALSE
    /\ access' = {}
    /\ keys' = {}
    /\ other' = other
    /\ threw' = {}
    /\ emitted' = <<>>
    /\ snap' = NoSnap
    /\ UNCHANGED <<phase, host, enabled, levelThreshold, observers, now,
                   track, pending, expected, nAccepted>>

\* Nesting of log calls: a call made while a payload is being serialised
MaxDepth == 2

TopCall == pending[Len(pending)]

\* A log call up to the point where it has read the slot (lines 115-123).
\* A call begins when no call is in progress (the logging path has no await,
\* and a listener runs as a task of its own), or from inside the
\* serialisation of the payload of the call in progress. A call that does
\* not go on to line 125 is complete; an exception thrown inside a nested
\* call passes through every enclosing JSON.stringify.
Enter(name, level, message, data, f) ==
    LET entry == createLogEntry(level, message, data)
        r == saveLogRead(enabled, slot, entry, f)
        accepted == track = "history" /\ enabled /\ shouldLog(level)
    IN  /\ phase = "ready"
        /\ Len(pending) < MaxDepth
        /\ pending # <<>> => TopCall.entry.data = "hooked"
        /\ slot' = r.slot
        /\ access' = r.access
        /\ keys' = KeysOf(r.access)
        /\ other' = OtherAfter(other, r.access, f)
        /\ threw' = Threw(r.access, f)
        /\ raised' = r.raised
        /\ emitted' = IF r.reached \/ r.raised THEN <<>>
                      ELSE logToConsole(entry)
        /\ result' = Void
        /\ op' = Op(name, level)
        /\ pending' = IF r.reached
                      THEN Append(pending,
                                  [name |-> name, entry |-> entry,
                                   snapshot |-> r.snapshot, logs |-> r.logs,
                                   overwritten |-> FALSE])
                      ELSE IF r.raised THEN <<>>
                      ELSE pending
        /\ expected' = IF accepted
                       THEN LastN(Append(expected, Ident(entry)), maxLogs)
                       ELSE expected
        /\ nAccepted' = IF accepted /\ nAccepted <= maxLogs THEN nAccepted + 1
                        ELSE nAccepted
        /\ UNCHANGED <<phase, host, enabled, levelThreshold, observers, now,
                       track, snap>>

\* The rest of the innermost log call in progress: line 125, then
\* logToConsole
Leave(f) ==
    LET w == saveLogWrite(slot, TopCall.logs, f) IN
    /\ pending # <<>>
    /\ slot' = w.slot
    /\ access' = w.access
    /\ keys' = KeysOf(w.access)
    /\ other' = OtherAfter(other, w.access, f)
    /\ threw' = Threw(w.access, f)
    /\ raised' = w.raised
    /\ emitted' = IF w.raised THEN <<>> ELSE logToConsole(TopCall.entry)
    /\ result' = [tag |-> "call", val |-> TopCall]
    /\ op' = Op(TopCall.name, TopCall.entry.level)
    /\ pending' = IF w.raised THEN <<>>
                  ELSE SubSeq(pending, 1, Len(pending) - 1)
    /\ UNCHANGED <<phase, host, enabled, levelThreshold, observers, now,
                   track, expected, nAccepted, snap>>

\* The entry a second page context appends with its own logger
OtherEntry ==
    [timestamp |-> toISOString(now), level |-> "WARN", message |-> "other",
     data |-> "plain", stack |-> FreshStack]

\* What the second page context can write: the collection with its entry
\* appended, or nothing (it cleared its logs)
OtherTexts(s) ==
    { Absent,
      JSONstringify(Value("array",
          pushShift(IF s.kind = "array" THEN s.items ELSE <<>>, OtherEntry)),
          0) }

\* Another writer that shares the slot writes it; the log calls in
\* progress have read the slot before that and know nothing of it
OtherWriter(text) ==
    /\ phase = "ready"
    /\ slot' = text
    /\ pending' = [i \in DOMAIN pending |->
                     [pending[i] EXCEPT !.overwritten = TRUE]]
    /\ op' = Op("otherWriter", NoLevel)
    /\ result' = Void
    /\ raised' = FALSE
    /\ access' = {}
    /\ keys' = {}
    /\ threw' = {}
    /\ emitted' = <<>>
    /\ UNCHANGED <<phase, host, enabled, levelThreshold, observers, now,
                   track, expected, nAccepted, snap, other>>

----------------------------------------------------------------------------
\* Specifications

\* An entry as an earlier page load persisted it
Stored(t, level, data) ==
    [timestamp |-> t, level |-> level, message |-> "m", data |-> data,
     stack |-> FreshStack]

\* A full collection of entries that have not expired
FullItems ==
    [i \in 1..maxLogs |-> Stored(1, IF i = 1 THEN "INFO" ELSE "WARN", "plain")]

\* Collections an earlier page load can have left in the slot: none, one
\* expired entry, an expired entry before a fresh one, a full collection
InitItems ==
    { <<>>,
      <<Stored(0, "INFO", "plain")>>,
      <<Stored(0, "ERROR", "emptyobj"), Stored(1, "DEBUG", "plain")>>,
      FullItems }

InitSlots ==
    {Absent} \cup CorruptSlots \cup {Text("array", items, 0) : items \in InitItems}

\* Before the page loads: h says whether window and document exist, t which
\* history variables are recorded
InitWith(h, t) ==
    /\ phase = "new"
    /\ host = h
    /\ track = t
    /\ slot \in InitSlots
    /\ enabled = TRUE
    /\ levelThreshold = "DEBUG"
    /\ observers = FALSE
    /\ now = 2
    /\ op = Op("none", NoLevel)
    /\ raised = FALSE
    /\ result = Void
    /\ access = {}
    /\ threw = {}
    /\ emitted = <<>>
    /\ expected = <<>>
    /\ nAccepted = 0
    /\ snap = NoSnap
    /\ other = ForeignText
    /\ keys = {}
    /\ pending = <<>>

\* The storage calls an operation can make decide which failures matter
ReadOutcomes == {f \in Outcomes : ~f.set}
RemoveOutcomes == {f \in Outcomes : ~f.get /\ ~f.set}

\* A page: window and document exist
Init == InitWith(TRUE, "none")

Next ==
    \/ \E f \in Outcomes : Constructor(f)
    \/ \E data \in Data, f \in Outcomes : debug(data, f)
    \/ \E data \in Data, f \in Outcomes : info(data, f)
    \/ \E data \in Data, f \in Outcomes : warn(data, f)
    \/ \E data \in Data, f \in Outcomes : error(data, f)
    \/ \E f \in Outcomes : ErrorEvent(f)
    \/ \E reason \in Reasons, f \in Outcomes : RejectionEvent(reason, f)
    \/ \E f \in RemoveOutcomes : ClearLogs(f)
    \/ \E f \in ReadOutcomes : GetLogs(f)
    \/ \E f \in ReadOutcomes : ExportLogs(f)
    \/ \E f \in ReadOutcomes : DownloadLogs(f)
    \/ \E f \in ReadOutcomes : GetLogsSummary(f)
    \/ enable
    \/ disable
    \/ \E level \in LogLevel : setLevelThreshold(level)
    \/ \E text \in CorruptSlots : ManualWrite(text)

Spec == Init /\ [][Next]_vars

\* The same page, recording the slot at each disable()
InitDisable == InitWith(TRUE, "snap")

SpecDisable == InitDisable /\ [][Next]_vars

\* The scenario of the capacity and ordering claims: the slot is empty when
\* the page loads, storage works, and the steps are log calls, threshold
\* changes and reads; the accepted calls are recorded
InitCalls == InitWith(TRUE, "history") /\ slot = Absent

NextCalls ==
    \/ phase = "new" /\ Constructor(NoFail)
    \/ \E data \in Data : debug(data, NoFail)
    \/ \E data \in Data : info(data, NoFail)
    \/ \E data \in Data : warn(data, NoFail)
    \/ \E data \in Data : error(data, NoFail)
    \/ \E level \in LogLevel : setLevelThreshold(level)
    \/ GetLogs(NoFail)

SpecCalls == InitCalls /\ [][NextCalls]_vars

\* No window or document (a server or a worker): no listener is ever
\* registered, so no event reaches the logger
InitNoHost == InitWith(FALSE, "none")

NextNoHost ==
    \/ \E f \in Outcomes : Constructor(f)
    \/ \E data \in Data, f \in Outcomes : debug(data, f)
    \/ \E data \in Data, f \in Outcomes : info(data, f)
    \/ \E data \in Data, f \in Outcomes : warn(data, f)
    \/ \E data \in Data, f \in Outcomes : error(data, f)
    \/ \E f \in RemoveOutcomes : ClearLogs(f)
    \/ \E f \in ReadOutcomes : GetLogs(f)
    \/ \E f \in ReadOutcomes : ExportLogs(f)
    \/ \E f \in ReadOutcomes : DownloadLogs(f)
    \/ \E f \in ReadOutcomes : GetLogsSummary(f)
    \/ enable
    \/ disable
    \/ \E level \in LogLevel : setLevelThreshold(level)
    \/ \E text \in CorruptSlots : ManualWrite(text)

SpecNoHost == InitNoHost /\ [][NextNoHost]_vars

\* createLogEntry as a function of its arguments: every kind of payload,
\* every level, the messages the class uses
EntryData ==
    {"undefined", "null", "string", "plain", "cyclic", "obj_stack",
     "obj_emptystack"} \cup ErrorData

Messages == {"m", "Global Error", "Unhandled Promise Rejection"}

InitEntry == InitWith(TRUE, "none") /\ slot = Absent

NextEntry ==
    \/ phase = "new" /\ Constructor(NoFail)
    \/ \E level \in LogLevel, message \in Messages, data \in EntryData :
          CreateLogEntry(level, message, data)

SpecEntry == InitEntry /\ [][NextEntry]_vars

\* The method that logs at a level
MethodOf(level) ==
    CASE level = "DEBUG" -> "debug"
      [] level = "INFO" -> "info"
      [] level = "WARN" -> "warn"
      [] level = "ERROR" -> "error"

\* Payloads of the step-wise log calls: a plain value, or one that runs
\* code of the page while it is serialised
StepData == {"plain", "hooked"}

\* One page context, the log calls in two steps, storage working: calls and
\* error events arrive in any order, each when no call is in progress or
\* from inside the serialisation of a payload, until more of them than the
\* capacity have been accepted
InitSteps == InitWith(TRUE, "history") /\ slot = Absent

NextSteps ==
    \/ phase = "new" /\ Constructor(NoFail)
    \/ \E level \in LogLevel, data \in StepData :
          /\ nAccepted <= maxLogs
          /\ Enter(MethodOf(level), level,
                   IF pending = <<>> THEN "m" ELSE "inner", data, NoFail)
    \/ /\ observers
       /\ nAccepted <= maxLogs
       /\ Enter("errorEvent", "ERROR", "Global Error", "event", NoFail)
    \/ Leave(NoFail)

SpecSteps == InitSteps /\ [][NextSteps]_vars

\* Two writers on one slot: the log calls of this page in two steps, and a
\* second page context that writes the slot at any moment
WriteOutcomes == {f \in Outcomes : ~f.get /\ ~f.remove}

InitShared ==
    InitWith(TRUE, "none") /\ slot \in {Absent, Text("array", FullItems, 0)}

NextShared ==
    \/ phase = "new" /\ Constructor(NoFail)
    \/ \E level \in LogLevel, f \in ReadOutcomes :
          Enter(MethodOf(level), level, "m", "plain", f)
    \/ \E f \in WriteOutcomes : Leave(f)
    \/ \E text \in OtherTexts(slot) : OtherWriter(text)

SpecShared == InitShared /\ [][NextShared]_vars

----------------------------------------------------------------------------
\* Claims

LogMethods == {"debug", "info", "warn", "error"}

\* The collection a text holds: its entries when it is an array
Collection(text) == IF text.kind = "array" THEN text.items ELSE <<>>

\* What getLogs() would return now, storage working
View == getLogs(enabled, slot, NoFail).ret

\* What a text decodes to: nothing, or what JSON.parse yields
Decode(text) ==
    IF text.kind \in {"absent", "empty", "garbage"} THEN EmptyArray
    ELSE JSONparse(text)

\* C1: in every reachable state the collection persisted in the slot holds
\* at most maxLogs entries.
C1_AtMostMaxLogs == Len(Collection(slot)) <= maxLogs

\* C1 witness: a log call was written to the slot that held the full
\* collection: the oldest entry is gone, the others moved up, the new entry
\* is last and the slot holds exactly maxLogs entries.
C1_Witness ==
    /\ op.name \in LogMethods
    /\ "set" \in access
    /\ threw = {}
    /\ slot.kind = "array"
    /\ Len(slot.items) = maxLogs
    /\ SubSeq(slot.items, 1, maxLogs - 1) = Tail(FullItems)
    /\ slot.items[maxLogs].timestamp = toISOString(now)

\* C2: from an empty slot, on an enabled store with working storage, after
\* more than maxLogs log calls that pass the level filter getLogs() returns
\* exactly maxLogs entries: those of the last maxLogs such calls, in call
\* order.
C2_Original ==
    (track = "history" /\ nAccepted > maxLogs) =>
        /\ View.type = "array"
        /\ Len(View.items) = maxLogs
        /\ Idents(View.items) = expected

\* C3: from an empty slot, on an enabled store with working storage, after
\* fewer than maxLogs calls at or above the threshold getLogs() returns
\* exactly the entries of those calls, in call order, each with the level
\* of its method.
C3_Original ==
    (track = "history" /\ nAccepted < maxLogs) =>
        /\ View.type = "array"
        /\ Idents(View.items) = expected

\* C4: a log call whose level is below the threshold leaves the slot as it
\* is, writes no console line, touches no storage and does not raise.
C4_BelowThreshold ==
    [][(/\ op'.name \in LogMethods
        /\ levelOrder(op'.level) < levelOrder(levelThreshold))
       => (/\ slot' = slot
           /\ emitted' = <<>>
           /\ access' = {}
           /\ ~raised')]_vars

\* C4 witness: a call below the threshold has run on an enabled store whose
\* slot holds entries.
C4_Witness ==
    /\ op.name \in LogMethods
    /\ levelOrder(op.level) < levelOrder(levelThreshold)
    /\ enabled
    /\ Len(Collection(slot)) > 0

\* C5: debug/info/warn/error never raise, whatever the payload and whichever
\* storage call throws; when the write fails the console line is still
\* written and the persisted collection is as before the call.
C5_Original ==
    [][(phase = "ready" /\ op'.name \in LogMethods)
       => (/\ ~raised'
           /\ ("set" \in threw' =>
                 /\ emitted' = <<[level |-> op'.level, message |-> "m"]>>
                 /\ Collection(slot') = Collection(slot)))]_vars

\* C6: whatever the slot holds, construction, the log calls, getLogs,
\* exportLogs and getLogsSummary do not raise, and a content that is not a
\* collection reads as the empty collection.
C6_Original ==
    /\ (op.name \in ({"constructor", "getLogs", "exportLogs", "getLogsSummary"}
                     \cup LogMethods) => ~raised)
    /\ (op.name = "getLogs" => result.val.type = "array")
    /\ (op.name = "exportLogs" => result.val.kind = "array")

\* C7, as claimed: getLogs() on an enabled store whose slot holds an
\* unparsable string returns the empty sequence and leaves the key removed.
C7_Original ==
    [][(phase = "ready" /\ enabled /\ slot = Garbage /\ op'.name = "getLogs")
       => (result'.val = EmptyArray /\ slot' = Absent)]_vars

\* C7, amended: getLogs() on an enabled store whose slot holds an unparsable
\* string returns the empty sequence; when neither the read nor the remove
\* throws it has read the slot, removed the key and nothing else, and when
\* one of them throws the slot keeps the unparsable string.
C7_CorruptRecovery ==
    [][(phase = "ready" /\ enabled /\ slot = Garbage /\ op'.name = "getLogs")
       => (/\ result'.val = EmptyArray
           /\ ~raised'
           /\ threw' = {} => (slot' = Absent /\ access' = {"get", "remove"})
           /\ threw' # {} => slot' = slot)]_vars

\* C7 witness: getLogs() has just removed the key of an unparsable slot
\* (only the recovery path calls remove) and returned the empty sequence.
C7_Witness ==
    /\ op.name = "getLogs"
    /\ enabled
    /\ access = {"get", "remove"}
    /\ threw = {}
    /\ slot = Absent
    /\ result.val = EmptyArray

\* C8: in a disabled store a log call neither changes the slot nor writes a
\* console line.
C8_Original ==
    [][(phase = "ready" /\ ~enabled /\ op'.name \in LogMethods)
       => (slot' = slot /\ emitted' = <<>>)]_vars

\* The operations of the store that run on a disabled instance
DisabledOps ==
    LogMethods \cup {"errorEvent", "rejectionEvent", "clearLogs", "getLogs",
                     "exportLogs", "getLogsSummary", "downloadLogs",
                     "setLevelThreshold", "disable"}

\* The part of C9 that does not depend on what a later read returns:
\* disable() leaves the slot as it is; an operation on a disabled store makes
\* no storage call and leaves the slot as it is; getLogs() returns the empty
\* sequence and exportLogs() the text "[]".
C9_Frame ==
    /\ (op'.name = "disable" => (slot' = slot /\ access' = {}))
    /\ ((phase = "ready" /\ ~enabled /\ op'.name \in DisabledOps)
          => (slot' = slot /\ access' = {}))
    /\ ((phase = "ready" /\ ~enabled /\ op'.name = "getLogs")
          => result'.val = EmptyArray)
    /\ ((phase = "ready" /\ ~enabled /\ op'.name = "exportLogs")
          => result'.val = Text("array", <<>>, 0))

\* C9, as claimed: C9_Frame, and after enable() getLogs() returns exactly
\* the collection the slot held at disable().
C9_Original ==
    [][/\ C9_Frame
       /\ ((phase = "ready" /\ enabled /\ snap.valid /\ op'.name = "getLogs")
             => result'.val = Value("array", Collection(snap.slot)))]_vars

\* C9, amended: C9_Frame, and after enable() a getLogs() whose storage read
\* does not throw returns what the slot content of the moment of disable()
\* decodes to.
C9_DisableKeepsData ==
    [][/\ C9_Frame
       /\ ((/\ phase = "ready"
            /\ enabled
            /\ snap.valid
            /\ op'.name = "getLogs"
            /\ "get" \notin threw')
             => result'.val = Decode(snap.slot))]_vars

\* C9 witness: entries were in the slot at disable(), and after enable()
\* getLogs() has returned them.
C9_Witness ==
    /\ op.name = "getLogs"
    /\ enabled
    /\ snap.valid
    /\ Len(Collection(snap.slot)) > 0
    /\ threw = {}
    /\ result.val = Value("array", snap.slot.items)

\* C10: with no window or document the constructor makes no storage call,
\* registers no listener and writes one advisory line, and afterwards no
\* operation makes a storage call or raises.
C10_Original ==
    phase = "ready" =>
        /\ ~observers
        /\ access = {}
        /\ ~raised
        /\ (op.name = "constructor" <=> emitted = <<Advisory>>)


\* The entries of a collection that have not expired at the time `now` of
\* an initialisation
WithinWindow(items) ==
    SelectSeq(items, LAMBDA e : e.timestamp >= now - logExpireDays)

\* C11, as claimed: after an initialisation in a page the slot's collection
\* is the collection of before without its expired entries, the others in
\* their order.
C11_Original ==
    [][(host /\ op'.name = "constructor")
       => Collection(slot') = WithinWindow(Collection(slot))]_vars

\* C11, amended: an initialisation in a page in which no storage call throws
\* leaves in the slot the collection of before without its expired entries,
\* the others in their order; when the read or the write throws the slot is
\* left as it was, expired entries included.
C11_ExpirySweep ==
    [][(host /\ op'.name = "constructor")
       => (/\ threw' = {} => Collection(slot') = WithinWindow(Collection(slot))
           /\ (threw' \cap {"get", "set"}) # {} => slot' = slot)]_vars

\* C11 witness: an initialisation has rewritten the slot (it writes only
\* when it dropped an entry) and an entry that had not expired remains.
C11_Witness ==
    /\ op.name = "constructor"
    /\ host
    /\ "set" \in access
    /\ threw = {}
    /\ Len(Collection(slot)) > 0
    /\ WithinWindow(Collection(slot)) = Collection(slot)


ObserverOps == {"errorEvent", "rejectionEvent"}

\* The last entry of a collection that is not empty
LastEntry(items) == items[Len(items)]

\* The entries before the last one
AllButLast(items) == SubSeq(items, 1, Len(items) - 1)

\* What is left of a collection before the entry a log call appended:
\* all of it, or all but the evicted oldest entry
KeptOrEvicted(items) ==
    {items} \cup (IF items = <<>> THEN {} ELSE {Tail(items)})

\* C12, read in the store's favour (store enabled, no storage call throws,
\* the slot holds a collection or nothing): each error or rejection event
\* delivered to the observer returns normally and appends exactly one entry
\* of level ERROR that carries the event's fields or the rejection reason,
\* the earlier entries staying in place but for the evicted oldest one.
C12_Original ==
    [][(/\ phase = "ready"
        /\ enabled
        /\ slot.kind \in {"absent", "array"}
        /\ op'.name \in ObserverOps
        /\ threw' = {})
       => (/\ ~raised'
           /\ Len(Collection(slot')) > 0
           /\ LastEntry(Collection(slot')).level = "ERROR"
           /\ LastEntry(Collection(slot')).timestamp = toISOString(now)
           /\ LastEntry(Collection(slot')).data
                 = (IF op'.name = "errorEvent" THEN "event" ELSE "reason_plain")
           /\ AllButLast(Collection(slot'))
                 \in KeptOrEvicted(Collection(slot)))]_vars


\* The number of entries of one level, counted by position
NumberOf(items, level) ==
    Cardinality({i \in 1..Len(items) : items[i].level = level})

\* The summary of a collection, computed from the counts by position
SummaryOf(items) ==
    [total |-> Len(items),
     errors |-> NumberOf(items, "ERROR"),
     warnings |-> NumberOf(items, "WARN"),
     info |-> NumberOf(items, "INFO"),
     debug |-> NumberOf(items, "DEBUG")]

\* The slot holds a collection of entries, or nothing
HoldsCollection(text) == text.kind \in {"absent", "empty", "array"}

\* C13, as claimed: on an enabled store getLogsSummary() returns the number
\* of entries of the persisted collection and the number of entries of each
\* level, which add up to the total; on a disabled store it returns zeros.
C13_Original ==
    [][(phase = "ready" /\ op'.name = "getLogsSummary")
       => (/\ (enabled /\ HoldsCollection(slot))
                => (/\ ~raised'
                    /\ result'.val = SummaryOf(Collection(slot))
                    /\ result'.val.total
                          = result'.val.errors + result'.val.warnings
                            + result'.val.info + result'.val.debug)
           /\ ~enabled => (~raised' /\ result'.val = SummaryOf(<<>>)))]_vars

\* C13, amended: the same when the storage read does not throw; when it
\* throws, getLogsSummary() on an enabled store returns zeros whatever the
\* collection holds.
C13_SummaryCounts ==
    [][(phase = "ready" /\ op'.name = "getLogsSummary")
       => (/\ (enabled /\ HoldsCollection(slot) /\ "get" \notin threw')
                => (/\ ~raised'
                    /\ result'.val = SummaryOf(Collection(slot))
                    /\ result'.val.total
                          = result'.val.errors + result'.val.warnings
                            + result'.val.info + result'.val.debug)
           /\ (enabled /\ "get" \in threw')
                => (~raised' /\ result'.val = SummaryOf(<<>>))
           /\ ~enabled => (~raised' /\ result'.val = SummaryOf(<<>>)))]_vars

\* C13 witness: getLogsSummary() on an enabled store has counted a
\* collection with entries of two levels.
C13_Witness ==
    /\ op.name = "getLogsSummary"
    /\ enabled
    /\ threw = {}
    /\ ~raised
    /\ result.val.total >= 2
    /\ Cardinality({k \in {"errors", "warnings", "info", "debug"} :
                      result.val[k] > 0}) >= 2
    /\ result.val = SummaryOf(Collection(slot))


\* C14: clearLogs() never raises; on an enabled store whose remove does not
\* throw it removes the key, so that a following getLogs() returns the
\* empty sequence; when the remove throws the slot is as before; on a
\* disabled store the slot is as before and no storage call is made.
C14_ClearLogs ==
    [][(phase = "ready" /\ op'.name = "clearLogs")
       => (/\ ~raised'
           /\ (enabled /\ "remove" \notin threw')
                => (/\ slot' = Absent
                    /\ access' = {"remove"}
                    /\ \A f \in ReadOutcomes :
                          getLogs(enabled', slot', f).ret = EmptyArray)
           /\ (enabled /\ "remove" \in threw') => slot' = slot
           /\ ~enabled => (slot' = slot /\ access' = {}))]_vars

\* C14 witness: clearLogs() on an enabled store has removed the key.
C14_Witness ==
    /\ op.name = "clearLogs"
    /\ enabled
    /\ access = {"remove"}
    /\ threw = {}
    /\ ~raised
    /\ slot = Absent


\* C15: setLevelThreshold(level) makes no storage call, does not raise and
\* leaves the slot, the enabled flag and the listeners as they are; under
\* every outcome of the storage read, getLogs() and getLogsSummary() return
\* after it what they returned before it.
C15_ThresholdFrame ==
    [][(phase = "ready" /\ op'.name = "setLevelThreshold")
       => (/\ slot' = slot
           /\ enabled' = enabled
           /\ observers' = observers
           /\ access' = {}
           /\ ~raised'
           /\ \A f \in ReadOutcomes :
                 /\ getLogs(enabled, slot, f)' = getLogs(enabled, slot, f)
                 /\ getLogsSummary(enabled, slot, f)'
                       = getLogsSummary(enabled, slot, f))]_vars

\* C15 witness: after the threshold was raised, getLogs() has returned an
\* entry of a level below it.
C15_Witness ==
    /\ op.name = "getLogs"
    /\ enabled
    /\ threw = {}
    /\ result.val.type = "array"
    /\ result.val.items = Collection(slot)
    /\ \E i \in 1..Len(result.val.items) :
          levelOrder(result.val.items[i].level) < levelOrder(levelThreshold)


C17_Original ==
    [][(op.name = "getLogs" /\ op'.name = "getLogs")
       => result'.val = result.val]_vars

\* C17, amended: a getLogs() that directly follows a getLogs() returns what
\* that one returned, whatever the slot held, when the storage read throws
\* in both calls or in neither; a call whose read throws returns the empty
\* sequence.
C17_Idempotent ==
    [][(op.name = "getLogs" /\ op'.name = "getLogs")
       => (/\ ("get" \in threw) = ("get" \in threw')
                => result'.val = result.val
           /\ "get" \in threw' => result'.val = EmptyArray)]_vars

\* C17 witness: getLogs() has returned a collection with entries, and a
\* second call would return the same and leave the slot as it is.
C17_Witness ==
    /\ op.name = "getLogs"
    /\ enabled
    /\ threw = {}
    /\ result.val.type = "array"
    /\ Len(result.val.items) > 0
    /\ getLogs(enabled, slot, NoFail).ret = result.val
    /\ getLogs(enabled, slot, NoFail).slot = slot


\* C18: every storage call of every operation names the logger's own key,
\* and the text under a key of other code is never changed.
C18_OwnKeyOnly ==
    [][/\ keys' \subseteq {storageKey}
       /\ other' = other]_vars

\* C18 witness: with a text under the other key, a getLogs() found an
\* unparsable payload and removed the logger's key; the other text is
\* still there.
C18_Witness ==
    /\ op.name = "getLogs"
    /\ access = {"get", "remove"}
    /\ threw = {}
    /\ keys = {storageKey}
    /\ slot = Absent
    /\ other = ForeignText


\* a is b with some entries left out: the entries of a are entries of b,
\* unchanged and in the order they have in b
RECURSIVE IsSubsequence(_, _)
IsSubsequence(a, b) ==
    IF a = <<>> THEN TRUE
    ELSE IF b = <<>> THEN FALSE
    ELSE IF Head(a) = Head(b) THEN IsSubsequence(Tail(a), Tail(b))
    ELSE IsSubsequence(a, Tail(b))

AppendingOps == LogMethods \cup ObserverOps

\* C19: for every operation of the store the collection in the slot after
\* it is the collection of before with some entries left out, the others
\* unchanged and in their order, followed by at most one new entry; a new
\* entry comes from a log call or an observer callback and carries its
\* level and the time of the call.
C19_NeverMutated ==
    [][op'.name # "manualWrite"
       => \/ IsSubsequence(Collection(slot'), Collection(slot))
          \/ /\ op'.name \in AppendingOps
             /\ Len(Collection(slot')) > 0
             /\ LastEntry(Collection(slot')).level = op'.level
             /\ LastEntry(Collection(slot')).timestamp = toISOString(now)
             /\ IsSubsequence(AllButLast(Collection(slot')),
                              Collection(slot))]_vars

\* C19 witness: the expiry sweep has left out an entry that was not the
\* last one and kept the entry after it as it was.
C19_Witness ==
    /\ op.name = "constructor"
    /\ "set" \in access
    /\ threw = {}
    /\ Collection(slot) = <<Stored(1, "DEBUG", "plain")>>


\* C20: the entry createLogEntry returns carries the stack attached to the
\* payload when the payload is an Error or an object with a stack field and
\* that stack is neither missing nor empty, and a freshly captured trace in
\* every other case.
C20_Original ==
    op.name = "createLogEntry" =>
        LET d == result.val.data IN
        result.val.stack =
            IF d \in ({"obj_stack", "obj_emptystack"} \cup ErrorData)
               /\ StackField(d) \notin {"", "undefined"}
            THEN StackField(d)
            ELSE FreshStack


\* C21: in one page context with working storage, when no call is in
\* progress and at most maxLogs calls and events have passed the level
\* filter, the slot holds exactly their entries, one each, in the order in
\* which they began.
C21_Original ==
    (track = "history" /\ phase = "ready" /\ pending = <<>>
       /\ nAccepted <= maxLogs)
      => Idents(Collection(slot)) = expected


\* A step in which the innermost log call in progress performs line 125
\* after another writer wrote the slot
OverwritingWrite ==
    /\ pending # <<>>
    /\ pending' = AllButLast(pending)
    /\ TopCall.overwritten
    /\ "set" \in access'

\* C22, as claimed: when another writer wrote the slot between the read and
\* the write of a log call, after the write the slot holds the log call's
\* read snapshot (less the evicted oldest entry) followed by its new entry,
\* nothing of what the other writer wrote, at most maxLogs entries, and no
\* error is raised.
C22_Original ==
    [][OverwritingWrite
       => (/\ ~raised'
           /\ slot'.kind = "array"
           /\ Len(slot'.items) <= maxLogs
           /\ LastEntry(slot'.items) = EntryToJSON(TopCall.entry)
           /\ AllButLast(slot'.items) \in KeptOrEvicted(TopCall.snapshot))]_vars

\* C22, amended: the same when the log call's setItem does not throw; when
\* it throws, no error is raised and the slot keeps what the other writer
\* wrote.
C22_LastWriterWins ==
    [][OverwritingWrite
       => (/\ ~raised'
           /\ "set" \notin threw'
                => (/\ slot'.kind = "array"
                    /\ Len(slot'.items) <= maxLogs
                    /\ LastEntry(slot'.items) = EntryToJSON(TopCall.entry)
                    /\ AllButLast(slot'.items)
                          \in KeptOrEvicted(TopCall.snapshot))
           /\ "set" \in threw' => slot' = slot)]_vars

\* C22 witness: a log call has written after another writer appended its
\* entry, and that entry is not in the slot.
C22_Witness ==
    /\ result.tag = "call"
    /\ result.val.overwritten
    /\ "set" \in access
    /\ threw = {}
    /\ slot.kind = "array"
    /\ LastEntry(slot.items) = EntryToJSON(result.val.entry)
    /\ \A i \in 1..Len(slot.items) : slot.items[i] # OtherEntry
    /\ Len(result.val.snapshot) > 0


ReadOnlyOps == {"getLogs", "exportLogs", "getLogsSummary", "downloadLogs"}

\* C23: getLogs, exportLogs, getLogsSummary and downloadLogs never call
\* setItem and leave the slot as it is, except that they remove the key of
\* an unparsable payload; a slot that holds a collection is left exactly as
\* it is; the sweep of an initialisation calls setItem only when the
\* collection holds an expired entry.
C23_ReadOnly ==
    [][/\ (phase = "ready" /\ op'.name \in ReadOnlyOps)
            => (/\ "set" \notin access'
                /\ slot' = slot \/ (slot = Garbage /\ slot' = Absent)
                /\ slot.kind = "array" => slot' = slot)
       /\ (op'.name = "constructor" /\ "set" \in access')
            => Len(WithinWindow(Collection(slot))) < Len(Collection(slot))]_vars

\* C23 witness: downloadLogs() has produced a file from a collection with
\* entries, having only read the slot, and the slot holds that collection.
C23_Witness ==
    /\ op.name = "downloadLogs"
    /\ ~raised
    /\ result.tag = "file"
    /\ access = {"get"}
    /\ threw = {}
    /\ slot.kind = "array"
    /\ Len(slot.items) > 0
    /\ JSONparse(result.val[1]) = Value("array", slot.items)

====
